---- MODULE Spec2Model ----
(***************************************************************************)
(* LATOKEN purchase planner (la_token_market_making_python/latoken_client). *)
(*                                                                         *)
(* LatokenClient.calculate_purchase_amount walks the ask side of an order  *)
(* book with a USD budget.  The code computes on Python floats (IEEE-754   *)
(* binary, round to nearest, ties to even, gradual underflow).  The model  *)
(* keeps that arithmetic but with a narrower format: a number is an        *)
(* integer count of units of 2^-FracBits, and every operation rounds its   *)
(* exact result to Prec significant bits.  binary64 is Prec = 53,          *)
(* FracBits = 1074.  Inputs are small enough that nothing overflows.       *)
(***************************************************************************)
EXTENDS Integers, Sequences, FiniteSets, TLC

\* ---------------------------------------------------------------- bounds
\* significand bits of the float format
Prec == 5
\* the smallest positive float is 2^-FracBits
FracBits == 10
\* most ask levels in an order book reply
MaxLevels == 2

\* ------------------------------------------------------ float arithmetic
\* 1.0 in units
ONE == 2^FracBits

RECURSIVE BitLen(_)
BitLen(n) == IF n = 0 THEN 0 ELSE 1 + BitLen(n \div 2)

\* num/den (num >= 0, den > 0, in units) rounded to the nearest float,
\* ties to the even significand; below 2^Prec units the spacing is 1 unit.
RoundNearest(num, den) ==
    LET q    == num \div den
        e    == IF BitLen(q) > Prec THEN BitLen(q) - Prec ELSE 0
        s    == 2^e
        k    == num \div (den * s)
        rest == num - k * den * s
        up   == 2 * rest > den * s \/ (2 * rest = den * s /\ k % 2 = 1)
    IN  (IF up THEN k + 1 ELSE k) * s

\* a rounding that drops the discarded bits instead of rounding to nearest
RoundDown(num, den) ==
    LET q == num \div den
        e == IF BitLen(q) > Prec THEN BitLen(q) - Prec ELSE 0
        s == 2^e
    IN  (num \div (den * s)) * s

Round(num, den) ==
    IF num < 0 THEN 0 - RoundNearest(0 - num, den) ELSE RoundNearest(num, den)

FMul(a, b) == Round(a * b, ONE)
FDivDown(a, b) == RoundDown(a * ONE, b)
FDiv(a, b) == Round(a * ONE, b)
FAdd(a, b) == Round(a + b, 1)
FSub(a, b) == Round(a - b, 1)

\* the float nearest to the decimal n/d, as a Python literal is read
Lit(n, d) == Round(n * ONE, d)

\* ----------------------------------------------------------- input space
\* ask levels as the exchange sends them: JSON objects, keys optional
Prices == {0, Lit(1, 4), ONE, Lit(3, 2), 2 * ONE}
Quantities == {0, 2 * ONE, 10 * ONE}
Levels ==
    [price : Prices, quantity : Quantities]
        \cup {[price |-> ONE], [quantity |-> 10 * ONE]}

RECURSIVE SeqsUpTo(_, _)
SeqsUpTo(S, n) ==
    IF n = 0 THEN {<<>>}
    ELSE LET shorter == SeqsUpTo(S, n - 1)
         IN  shorter \cup {Append(s, x) : s \in {t \in shorter : Len(t) = n - 1}, x \in S}

LevelLists == SeqsUpTo(Levels, MaxLevels)

\* JSON values under the keys 'asks' / 'ask'
JNull == [t |-> "null"]
JList(l) == [t |-> "list", v |-> l]
OtherList == <<[price |-> ONE, quantity |-> 2 * ONE]>>
SmallValues == {JNull, JList(<<>>), JList(OtherList)}

\* bodies of a successful order book reply
Bodies ==
    {[t |-> "other"]}
        \cup {[t |-> "dict", d |-> [asks |-> JList(l)]] : l \in LevelLists}
        \cup {[t |-> "dict", d |-> [ask |-> JList(l)]] : l \in LevelLists}
        \cup {[t |-> "dict", d |-> [asks |-> a, ask |-> b]] : a \in SmallValues, b \in SmallValues}
        \cup {[t |-> "dict", d |-> [asks |-> a]] : a \in SmallValues}
        \cup {[t |-> "dict", d |-> [ask |-> a]] : a \in SmallValues}
        \cup {[t |-> "dict", d |-> [bids |-> JList(<<>>)]]}

Budgets == {0 - ONE, 0, 10 * ONE, 15 * ONE}

\* ------------------------------------------------------------------ state
VARIABLES
    budget,      \* argument of calculate_purchase_amount
    reply,       \* body the exchange answers the book request with
    pc,          \* position in calculate_purchase_amount
    asks,        \* normalized ask levels
    idx,         \* loop position in asks (1-based)
    remaining,
    purchases,
    total_qty,
    total_cost,
    result,      \* returned dict
    net,         \* requests sent so far, in order, each with what came back
    \* a fetch operation (get_book, get_order_book, MarketMaker.fetch_order_book)
    fop,         \* which one
    fpc,         \* position in it
    resp,        \* what the exchange answers its book request with
    fbook,       \* get_order_book's local `book`
    fret,        \* value handed back to the caller
    \* a place_order call
    cred,        \* api_key, api_secret of the client
    oargs,       \* arguments of the call
    opc,         \* position in it
    payload,     \* items of the payload dict, in insertion order
    body,        \* json.dumps(payload, separators=(',', ':'))
    headers,
    oret,        \* value returned, or the exception raised
    \* a program of the repository
    prog,        \* which entry point runs
    ppc,         \* position in it
    cycles,      \* scheduler cycles completed
    \* the scheduler (MarketMaker)
    interval,    \* self.interval, seconds
    cycle_budget,\* run_cycle's local `budget`
    order_book,  \* run_cycle's local `order_book`
    events       \* what the loop has done so far, in order

calcVars == <<budget, reply, pc, asks, idx, remaining, purchases, total_qty, total_cost, result>>

fetchVars == <<fop, fpc, resp, fbook, fret>>
orderVars == <<cred, oargs, opc, payload, body, headers, oret>>
schedVars == <<interval, cycle_budget, order_book, events>>
progVars == <<prog, ppc, cycles, schedVars>>

vars == <<calcVars, net, fetchVars, orderVars, progVars>>

\* Python's None
PyNone == [t |-> "None"]

\* ------------------------------------------------------------- the network
\* what comes back for a request: no response at all, or a status and a body
\* that parses as JSON or does not
Outcomes ==
    {[t |-> "transport"],
     [t |-> "http", status |-> 200, json |-> TRUE],
     [t |-> "http", status |-> 200, json |-> FALSE],
     [t |-> "http", status |-> 404, json |-> FALSE],
     [t |-> "http", status |-> 500, json |-> TRUE]}

\* response.raise_for_status() raises
RaisesForStatus(o) == o.t = "http" /\ o.status >= 400 /\ o.status < 600

\* session.get(...); raise_for_status(); response.json() raises
GetFails(o) == o.t = "transport" \/ RaisesForStatus(o) \/ (o.t = "http" /\ ~o.json)

BookGet(o) == [method |-> "GET", url |-> "/v2/book", outcome |-> o]

NoResult == [t |-> "none"]

\* no fetch operation, no place_order call, no program under way
FetchIdle ==
    /\ fop = "none"
    /\ fpc = "idle"
    /\ resp = [outcome |-> [t |-> "transport"], body |-> [t |-> "other"]]
    /\ fbook = PyNone
    /\ fret = PyNone

OrderIdle ==
    /\ cred = [api_key |-> PyNone, api_secret |-> PyNone]
    /\ oargs = PyNone
    /\ opc = "idle"
    /\ payload = <<>>
    /\ body = ""
    /\ headers = PyNone
    /\ oret = PyNone

SchedIdle ==
    /\ interval = 0
    /\ cycle_budget = PyNone
    /\ order_book = PyNone
    /\ events = <<>>

ProgIdle ==
    /\ prog = "none"
    /\ ppc = "idle"
    /\ cycles = 0
    /\ SchedIdle

ZeroPlan ==
    [total_quantity |-> 0, total_cost |-> 0, average_price |-> 0, purchases |-> <<>>]

Init ==
    /\ budget \in Budgets
    /\ reply \in Bodies
    /\ pc = "start"
    /\ asks = <<>>
    /\ idx = 1
    /\ remaining = 0
    /\ purchases = <<>>
    /\ total_qty = 0
    /\ total_cost = 0
    /\ result = NoResult
    /\ net = <<>>
    /\ FetchIdle
    /\ OrderIdle
    /\ ProgIdle

\* ------------------------------------------------- calculate_purchase_amount
\* `if remaining <= 0: return` with remaining = float(budget)
NonPositiveStrict(b) == b < 0
NonPositive(b) == b <= 0

\* `value or []`
OrEmpty(j) == IF j.t = "list" THEN j.v ELSE <<>>

\* the asks the walk iterates: 'asks' if present, else 'ask', else []
NormalizeAsks(book) ==
    IF book.t # "dict" THEN <<>>
    ELSE IF "asks" \in DOMAIN book.d THEN OrEmpty(book.d.asks)
    ELSE IF "ask" \in DOMAIN book.d THEN OrEmpty(book.d.ask)
    ELSE <<>>

\* float(level.get('price', 0)), float(level.get('quantity', 0))
Price(level) == IF "price" \in DOMAIN level THEN level.price ELSE 0
QtyAvailable(level) == IF "quantity" \in DOMAIN level THEN level.quantity ELSE 0

CostFull(level) == FMul(Price(level), QtyAvailable(level))

\* quantity bought at a level with `rem` left
QtyAlwaysPartial(level, rem) ==
    IF Price(level) > 0 THEN FDiv(rem, Price(level)) ELSE 0
Qty(level, rem) ==
    IF CostFull(level) <= rem
    THEN QtyAvailable(level)
    ELSE IF Price(level) > 0 THEN FDiv(rem, Price(level)) ELSE 0

\* cost charged for it
CostChargesRemaining(level, rem) ==
    IF CostFull(level) <= rem THEN CostFull(level) ELSE rem
Cost(level, rem) ==
    IF CostFull(level) <= rem
    THEN CostFull(level)
    ELSE FMul(Qty(level, rem), Price(level))

\* `if qty <= 0: continue`
SkipsNegativeOnly(level, rem) == Qty(level, rem) < 0
Skips(level, rem) == Qty(level, rem) <= 0

AveragePriceDown(tc, tq) == IF tq > 0 THEN FDivDown(tc, tq) ELSE 0
AveragePrice(tc, tq) == IF tq > 0 THEN FDiv(tc, tq) ELSE 0

Begin ==
    /\ pc = "start"
    /\ remaining' = budget
    /\ IF NonPositive(budget)
       THEN /\ result' = ZeroPlan
            /\ pc' = "done"
       ELSE /\ result' = result
            /\ pc' = "fetch"
    /\ UNCHANGED <<budget, reply, asks, idx, purchases, total_qty, total_cost, net, fetchVars, orderVars, progVars>>

\* get_book returns the parsed body; the asks are normalized and the walk set up
GetBookOk ==
    /\ pc = "fetch"
    /\ \E o \in Outcomes : ~GetFails(o) /\ net' = Append(net, BookGet(o))
    /\ asks' = NormalizeAsks(reply)
    /\ purchases' = <<>>
    /\ remaining' = budget
    /\ total_qty' = 0
    /\ total_cost' = 0
    /\ idx' = 1
    /\ pc' = "loop"
    /\ UNCHANGED <<budget, reply, result, fetchVars, orderVars, progVars>>

\* get_book raises (transport failure, or raise_for_status on an error status)
GetBookIgnoresStatus ==
    /\ pc = "fetch"
    /\ \E o \in Outcomes :
        /\ GetFails(o)
        /\ net' = Append(net, BookGet(o))
        /\ IF o.t = "http" /\ o.json
           THEN /\ asks' = NormalizeAsks(reply)
                /\ pc' = "loop"
           ELSE /\ asks' = asks
                /\ pc' = "raised"
    /\ UNCHANGED <<budget, reply, idx, remaining, purchases, total_qty, total_cost, result, fetchVars, orderVars, progVars>>

GetBookRaises ==
    /\ pc = "fetch"
    /\ \E o \in Outcomes : GetFails(o) /\ net' = Append(net, BookGet(o))
    /\ pc' = "raised"
    /\ UNCHANGED <<budget, reply, asks, idx, remaining, purchases, total_qty, total_cost, result, fetchVars, orderVars, progVars>>

InLoop == pc = "loop" /\ idx <= Len(asks) /\ remaining > 0

SkipLevel ==
    /\ InLoop
    /\ Skips(asks[idx], remaining)
    /\ idx' = idx + 1
    /\ UNCHANGED <<budget, reply, pc, asks, remaining, purchases, total_qty, total_cost, result, net, fetchVars, orderVars, progVars>>

TakeLevelPrepend ==
    /\ InLoop
    /\ ~Skips(asks[idx], remaining)
    /\ LET level == asks[idx]
           qty   == Qty(level, remaining)
           cost  == Cost(level, remaining)
       IN  /\ purchases' = <<[price |-> Price(level), quantity |-> qty, cost |-> cost]>> \o purchases
           /\ total_qty' = FAdd(total_qty, qty)
           /\ total_cost' = FAdd(total_cost, cost)
           /\ remaining' = FSub(remaining, cost)
    /\ idx' = idx + 1
    /\ UNCHANGED <<budget, reply, pc, asks, result, net, fetchVars, orderVars, progVars>>

TakeLevelFullCost ==
    /\ InLoop
    /\ ~Skips(asks[idx], remaining)
    /\ LET level == asks[idx]
           qty   == Qty(level, remaining)
           cost  == Cost(level, remaining)
       IN  /\ purchases' = Append(purchases, [price |-> Price(level), quantity |-> qty, cost |-> cost])
           /\ total_qty' = FAdd(total_qty, qty)
           /\ total_cost' = FAdd(total_cost, CostFull(level))
           /\ remaining' = FSub(remaining, cost)
    /\ idx' = idx + 1
    /\ UNCHANGED <<budget, reply, pc, asks, result, net, fetchVars, orderVars, progVars>>

TakeLevel ==
    /\ InLoop
    /\ ~Skips(asks[idx], remaining)
    /\ LET level == asks[idx]
           qty   == Qty(level, remaining)
           cost  == Cost(level, remaining)
       IN  /\ purchases' = Append(purchases, [price |-> Price(level), quantity |-> qty, cost |-> cost])
           /\ total_qty' = FAdd(total_qty, qty)
           /\ total_cost' = FAdd(total_cost, cost)
           /\ remaining' = FSub(remaining, cost)
    /\ idx' = idx + 1
    /\ UNCHANGED <<budget, reply, pc, asks, result, net, fetchVars, orderVars, progVars>>

\* loop left by `break` or exhaustion; the plan is returned
Return ==
    /\ pc = "loop"
    /\ (idx > Len(asks) \/ remaining <= 0)
    /\ result' = [total_quantity |-> total_qty,
                  total_cost     |-> total_cost,
                  average_price  |-> AveragePrice(total_cost, total_qty),
                  purchases      |-> purchases]
    /\ pc' = "done"
    /\ UNCHANGED <<budget, reply, asks, idx, remaining, purchases, total_qty, total_cost, net, fetchVars, orderVars, progVars>>

Next ==
    \/ Begin
    \/ GetBookOk
    \/ GetBookRaises
    \/ SkipLevel
    \/ TakeLevel
    \/ Return

Spec == Init /\ [][Next]_vars

\* ------------------------------------------------------------ properties
Done == pc = "done"

\* left-to-right float sum of the first n entries, as Python's sum()
RECURSIVE FSumTo(_, _)
FSumTo(xs, n) == IF n = 0 THEN 0 ELSE FAdd(FSumTo(xs, n - 1), xs[n])
FSum(xs) == FSumTo(xs, Len(xs))

QtysOf(ps) == [i \in 1..Len(ps) |-> ps[i].quantity]
CostsOf(ps) == [i \in 1..Len(ps) |-> ps[i].cost]
BookQtys(ls) == [i \in 1..Len(ls) |-> QtyAvailable(ls[i])]

\* C1: budget conservation: for every budget b >= 0 and every book, the
\* returned plan has total_cost <= b.
C1_BudgetConservation ==
    (Done /\ budget >= 0) => result.total_cost <= budget

\* C2: no manufactured depth: the plan's total_quantity is at most the sum
\* of the quantities of the ask levels in the book (the float sum, taken
\* left to right; prices and quantities are non-negative).
C2_NoManufacturedDepth ==
    Done => result.total_quantity <= FSum(BookQtys(NormalizeAsks(reply)))

\* C2 witness: a plan that bought part of the book's depth
C2_Witness ==
    /\ Done
    /\ result.total_quantity > 0
    /\ result.total_quantity < FSum(BookQtys(asks))
    /\ Len(result.purchases) = 2

\* the reply carries no ask level under either key
NoAskLevels(book) ==
    \/ book.t # "dict"
    \/ /\ ("asks" \in DOMAIN book.d => OrEmpty(book.d.asks) = <<>>)
       /\ ("ask" \in DOMAIN book.d => OrEmpty(book.d.ask) = <<>>)

\* C3: degenerate inputs give the zero plan and no error: with budget <= 0
\* the call returns the zero plan for any book (it never gets to the request
\* that could fail), and with no ask levels in the book it returns the zero
\* plan for any budget.
C3_DegenerateZeroPlan ==
    /\ budget <= 0 => (pc \in {"start", "done"} /\ (Done => result = ZeroPlan))
    /\ (Done /\ NoAskLevels(reply)) => result = ZeroPlan

\* C3 witness: a positive budget walked an empty book to the zero plan
C3_Witness ==
    /\ Done
    /\ budget > 0
    /\ reply.t = "dict"
    /\ "ask" \in DOMAIN reply.d
    /\ reply.d.ask = JNull
    /\ result = ZeroPlan

\* the walk of the specification: levels in input order while budget is
\* left, a whole level when price*quantity <= remaining, else the quantity
\* remaining/price (0 when the price is not positive) at cost quantity*price,
\* no allocation for a quantity <= 0, each cost subtracted from remaining
RECURSIVE RefWalk(_, _, _)
RefWalk(levels, i, st) ==
    IF i > Len(levels) \/ st.rem <= 0 THEN st
    ELSE LET l     == levels[i]
             p     == IF "price" \in DOMAIN l THEN l.price ELSE 0
             q     == IF "quantity" \in DOMAIN l THEN l.quantity ELSE 0
             whole == FMul(p, q) <= st.rem
             qty   == IF whole THEN q ELSE IF p > 0 THEN FDiv(st.rem, p) ELSE 0
             cost  == IF whole THEN FMul(p, q) ELSE FMul(qty, p)
         IN  IF qty <= 0 THEN RefWalk(levels, i + 1, st)
             ELSE RefWalk(levels, i + 1,
                          [rem |-> FSub(st.rem, cost),
                           tq  |-> FAdd(st.tq, qty),
                           tc  |-> FAdd(st.tc, cost),
                           ps  |-> Append(st.ps, [price |-> p, quantity |-> qty, cost |-> cost])])

RefPlan(b, levels) ==
    LET end == RefWalk(levels, 1, [rem |-> b, tq |-> 0, tc |-> 0, ps |-> <<>>])
    IN  [total_quantity |-> end.tq,
         total_cost     |-> end.tc,
         average_price  |-> IF end.tq > 0 THEN FDiv(end.tc, end.tq) ELSE 0,
         purchases      |-> end.ps]

ScenarioA ==
    /\ budget = 15 * ONE
    /\ asks = <<[price |-> ONE, quantity |-> 10 * ONE], [price |-> 2 * ONE, quantity |-> 10 * ONE]>>

\* C4: greedy walk: for a positive budget the returned plan is the plan of
\* the reference walk over the same levels; asks [(1.0,10),(2.0,10)] with
\* budget 15 give total_quantity 12.5, total_cost 15, average_price 1.2.
C4_GreedyWalk ==
    (Done /\ budget > 0) =>
        /\ result = RefPlan(budget, asks)
        /\ ScenarioA =>
            /\ result.total_quantity = Lit(25, 2)
            /\ result.total_cost = 15 * ONE
            /\ result.average_price = Lit(12, 10)

\* C4 witness: scenario A walked to its end, the second level taken in part
C4_Witness ==
    /\ Done
    /\ ScenarioA
    /\ Len(result.purchases) = 2
    /\ result.purchases[2].quantity = Lit(5, 2)

\* the levels with positive quantity, and the allocations, as <<price, quantity>>
DepthOf(ls) ==
    LET pos == SelectSeq(ls, LAMBDA l : QtyAvailable(l) > 0)
    IN  [i \in 1..Len(pos) |-> <<Price(pos[i]), QtyAvailable(pos[i])>>]
BoughtOf(ps) == [i \in 1..Len(ps) |-> <<ps[i].price, ps[i].quantity>>]

\* C5: the plan spends strictly less than a positive budget only when the
\* book ran out of depth: if total_cost < budget, every ask level with
\* positive quantity is in purchases with its full quantity.
C5_UnderspendOnlyOutOfDepth ==
    (Done /\ budget > 0 /\ result.total_cost < budget) =>
        BoughtOf(result.purchases) = DepthOf(asks)

Abs(x) == IF x < 0 THEN 0 - x ELSE x

\* C6 as stated: average_price * total_quantity equals total_cost when
\* total_quantity > 0, and average_price is 0 when total_quantity is 0.
C6_AveragePriceExact ==
    Done =>
        IF result.total_quantity > 0
        THEN FMul(result.average_price, result.total_quantity) = result.total_cost
        ELSE result.average_price = 0

\* average_price * total_quantity - total_cost, exactly, in units of 2^-(2*FracBits)
AvgDefect == result.average_price * result.total_quantity - result.total_cost * ONE

\* C6 amended: average_price * total_quantity equals total_cost up to the
\* rounding of the one division that computed average_price: the exact
\* difference is at most total_cost * 2^-Prec, or at most half the smallest
\* positive float times total_quantity; average_price is 0 when
\* total_quantity is 0.
C6_AveragePriceRounded ==
    Done =>
        IF result.total_quantity > 0
        THEN \/ (2^Prec) * Abs(AvgDefect) <= result.total_cost * ONE
             \/ 2 * Abs(AvgDefect) <= result.total_quantity
        ELSE result.average_price = 0

\* C6 witness: a plan whose average price had to be rounded
C6_Witness ==
    /\ Done
    /\ result.total_quantity > 0
    /\ AvgDefect # 0

\* C7: totals match allocations: total_quantity is the sum of the
\* purchases' quantities and total_cost the sum of their costs (float sums,
\* taken left to right).
C7_TotalsMatchAllocations ==
    Done =>
        /\ result.total_quantity = FSum(QtysOf(result.purchases))
        /\ result.total_cost = FSum(CostsOf(result.purchases))

\* C7 witness: a plan of two allocations, the last a partial fill
C7_Witness ==
    /\ Done
    /\ Len(result.purchases) = 2
    /\ result.purchases[2].quantity < QtyAvailable(asks[2])

AllocationsSound ==
    \A i \in 1..Len(purchases) :
        /\ purchases[i].quantity > 0
        /\ purchases[i].cost = FMul(purchases[i].price, purchases[i].quantity)

SkipChangesNothing ==
    (InLoop /\ Qty(asks[idx], remaining) <= 0) =>
        UNCHANGED <<purchases, total_qty, total_cost, remaining>>

\* C8: every allocation in purchases has quantity > 0 and cost equal to
\* price * quantity; a level whose computed quantity is <= 0 adds no
\* allocation and changes neither the totals nor the remaining budget.
C8_AllocationsSound ==
    [](AllocationsSound /\ (Done => result.purchases = purchases)) /\ [][SkipChangesNothing]_vars

\* C8 witness: a level of quantity 0 was passed over and a later one bought
C8_Witness ==
    /\ Done
    /\ Len(asks) = 2
    /\ QtyAvailable(asks[1]) = 0
    /\ Len(result.purchases) = 1

NthOf(S, i) == CHOOSE x \in S : Cardinality({y \in S : y < x}) = i - 1

\* ps are allocations of distinct levels of ls, in the order of ls
InLevelOrder(ps, ls) ==
    \E S \in SUBSET (1..Len(ls)) :
        /\ Cardinality(S) = Len(ps)
        /\ \A i \in 1..Len(ps) :
            /\ ps[i].price = Price(ls[NthOf(S, i)])
            /\ ps[i].quantity <= QtyAvailable(ls[NthOf(S, i)])

NonDecreasing(xs) == \A i \in 1..(Len(xs) - 1) : xs[i] <= xs[i + 1]
PricesOf(ps) == [i \in 1..Len(ps) |-> ps[i].price]
BookPrices(ls) == [i \in 1..Len(ls) |-> Price(ls[i])]

\* C9: ascending consumption order: purchases are in the relative order of
\* the levels they were taken from, one allocation per level at most, at
\* the level's price; for asks in non-decreasing price order the purchases
\* are in non-decreasing price order.
C9_ConsumptionOrder ==
    Done =>
        /\ InLevelOrder(result.purchases, asks)
        /\ NonDecreasing(BookPrices(asks)) => NonDecreasing(PricesOf(result.purchases))

\* C9 witness: two levels of different prices both bought
C9_Witness ==
    /\ Done
    /\ Len(result.purchases) = 2
    /\ result.purchases[1].price < result.purchases[2].price

\* C10: a zero-price ask level is skipped: with a positive budget no
\* allocation of the plan has price 0.
C10_ZeroPriceSkipped ==
    (Done /\ budget > 0) => \A i \in 1..Len(result.purchases) : result.purchases[i].price # 0

\* ------------------------------------------------ requests of the calculator
\* C11: the calculator performs no I/O: computing a plan for a budget issues
\* no network request.
C11_NoNetworkRequest ==
    net = <<>>

\* the request got an answer with a success status
Success(o) == o.t = "http" /\ o.status >= 200 /\ o.status < 300

\* C14: a fetch never yields an order book after a failed request: when the
\* order-book request hit a transport failure or a non-success status,
\* get_book raised, no ask level was taken from the response and no plan was
\* computed; a walk or a plan after a request means the request succeeded.
C14_NoBookAfterFailedRequest ==
    \A i \in 1..Len(net) :
        /\ ~Success(net[i].outcome) =>
              /\ pc = "raised"
              /\ result = NoResult
              /\ asks = <<>>
              /\ purchases = <<>>
        /\ pc \in {"loop", "done"} => Success(net[i].outcome)

\* C14 witness: the book request came back with an error status and the call
\* ended in the exception
C14_Witness ==
    /\ pc = "raised"
    /\ Len(net) = 1
    /\ net[1].outcome.t = "http"
    /\ net[1].outcome.status = 500
    /\ net[1].outcome.json
    /\ NormalizeAsks(reply) # <<>>

\* --------------------------------------------------- the fetch operations
\* the calculator is not running
CalcIdle ==
    /\ budget = 0
    /\ reply = [t |-> "other"]
    /\ pc = "idle"
    /\ asks = <<>>
    /\ idx = 1
    /\ remaining = 0
    /\ purchases = <<>>
    /\ total_qty = 0
    /\ total_cost = 0
    /\ result = NoResult

\* keys the exchange puts its level lists under
LegacyKeys == {"bid", "ask"}
CanonicalKeys == {"bids", "asks"}
BookKeys == LegacyKeys \cup CanonicalKeys

BidLevels == <<[price |-> ONE, quantity |-> 10 * ONE], [price |-> Lit(1, 4), quantity |-> 2 * ONE]>>
AskLevels == <<[price |-> Lit(3, 2), quantity |-> 2 * ONE], [price |-> 2 * ONE, quantity |-> 10 * ONE]>>
\* a list with an entry that has no price
BadLevels == <<[price |-> ONE, quantity |-> 2 * ONE], [quantity |-> 10 * ONE]>>

BookValues == {JNull, JList(<<>>), JList(BidLevels), JList(AskLevels), JList(BadLevels)}

\* JSON objects with any of the four keys, each holding any of the values
BookDicts == UNION {[K -> BookValues] : K \in SUBSET BookKeys}

\* parsed bodies: an object, or JSON of another kind
BookBodies == {[t |-> "other"]} \cup {[t |-> "dict", d |-> d] : d \in BookDicts}

\* what the exchange answers: the outcome of the request and, when the
\* request does not fail, the parsed body
Responses ==
    {[outcome |-> o, body |-> b] : o \in {x \in Outcomes : ~GetFails(x)}, b \in BookBodies}
        \cup {[outcome |-> o, body |-> [t |-> "other"]] : o \in {x \in Outcomes : GetFails(x)}}

FetchOps == {"get_book", "get_order_book", "fetch_order_book"}

InitFetch ==
    /\ CalcIdle
    /\ OrderIdle
    /\ ProgIdle
    /\ net = <<>>
    /\ fop \in FetchOps
    /\ fpc = "start"
    /\ resp \in Responses
    /\ fbook = PyNone
    /\ fret = PyNone

\* dict without key k; dict with key k set to v
Pop(d, k) == [x \in DOMAIN d \ {k} |-> d[x]]
Put(d, k, v) == [x \in DOMAIN d \cup {k} |-> IF x = k THEN v ELSE d[x]]

\* if old in book: book[new] = book.pop(old) or []
CopyKey(d, old, new) ==
    IF old \in DOMAIN d THEN Put(d, new, JList(OrEmpty(d[old]))) ELSE d
RenameKey(d, old, new) ==
    IF old \in DOMAIN d THEN Put(Pop(d, old), new, JList(OrEmpty(d[old]))) ELSE d

\* get_order_book after the fetch: legacy keys renamed on a dict
NormalizeBookKeepsLegacy(book) ==
    IF book.t # "dict" THEN book
    ELSE [t |-> "dict", d |-> CopyKey(CopyKey(book.d, "bid", "bids"), "ask", "asks")]
NormalizeBookAsksOnly(book) ==
    IF book.t # "dict" THEN book
    ELSE [t |-> "dict", d |-> RenameKey(book.d, "ask", "asks")]
NormalizeBook(book) ==
    IF book.t # "dict" THEN book
    ELSE [t |-> "dict", d |-> RenameKey(RenameKey(book.d, "bid", "bids"), "ask", "asks")]

\* get_book returns response.json(), to the caller or into get_order_book
FetchGetBookOk ==
    /\ fpc = "start"
    /\ fop \in {"get_book", "get_order_book"}
    /\ ~GetFails(resp.outcome)
    /\ net' = Append(net, BookGet(resp.outcome))
    /\ IF fop = "get_book"
       THEN /\ fret' = resp.body
            /\ fbook' = fbook
            /\ fpc' = "returned"
       ELSE /\ fbook' = resp.body
            /\ fret' = fret
            /\ fpc' = "normalize"
    /\ UNCHANGED <<calcVars, fop, resp, orderVars, progVars>>

\* get_book raises; get_order_book does not catch it
FetchGetBookRaises ==
    /\ fpc = "start"
    /\ fop \in {"get_book", "get_order_book"}
    /\ GetFails(resp.outcome)
    /\ net' = Append(net, BookGet(resp.outcome))
    /\ fpc' = "raised"
    /\ UNCHANGED <<calcVars, fop, resp, fbook, fret, orderVars, progVars>>

\* get_order_book normalizes the keys and returns the book
FetchNormalize ==
    /\ fpc = "normalize"
    /\ fbook' = NormalizeBook(fbook)
    /\ fret' = NormalizeBook(fbook)
    /\ fpc' = "returned"
    /\ UNCHANGED <<calcVars, net, fop, resp, orderVars, progVars>>

\* MarketMaker.fetch_order_book: self.latoken is a LatokenClient, which has
\* no get_order_book method (it is a function of the module); the
\* AttributeError is caught and None returned
FetchOrderBookNone ==
    /\ fpc = "start"
    /\ fop = "fetch_order_book"
    /\ fret' = PyNone
    /\ fpc' = "returned"
    /\ UNCHANGED <<calcVars, net, fop, resp, fbook, orderVars, progVars>>

NextFetch ==
    \/ FetchGetBookOk
    \/ FetchGetBookRaises
    \/ FetchNormalize
    \/ FetchOrderBookNone

SpecFetch == InitFetch /\ [][NextFetch]_vars

\* ------------------------------------------- properties of the fetch operations
\* the operation handed a JSON object back to its caller
ReturnedDict == fpc = "returned" /\ fret.t = "dict"

\* C12: legacy key normalization: for every response carrying its level
\* lists under 'ask' and 'bid', get_order_book returns a book whose 'asks'
\* and 'bids' hold exactly those level lists (same levels, same order; an
\* empty list for null) and which no longer has 'ask' or 'bid' keys.
C12_LegacyKeysNormalized ==
    (/\ fop = "get_order_book"
     /\ fpc = "returned"
     /\ resp.body.t = "dict"
     /\ LegacyKeys \subseteq DOMAIN resp.body.d)
        => /\ ReturnedDict
           /\ CanonicalKeys \subseteq DOMAIN fret.d
           /\ fret.d.asks = JList(OrEmpty(resp.body.d.ask))
           /\ fret.d.bids = JList(OrEmpty(resp.body.d.bid))
           /\ DOMAIN fret.d \cap LegacyKeys = {}

\* C12 witness: a legacy response with two different non-empty lists (and a
\* stale canonical key) was normalized
C12_Witness ==
    /\ fop = "get_order_book"
    /\ fpc = "returned"
    /\ resp.body.t = "dict"
    /\ DOMAIN resp.body.d = {"ask", "bid", "asks"}
    /\ resp.body.d.ask = JList(AskLevels)
    /\ resp.body.d.bid = JList(BidLevels)
    /\ resp.body.d.asks = JList(<<>>)
    /\ fret.d.asks = JList(AskLevels)

\* the returned object has no legacy key, and has the canonical key for
\* each side the response carried under either name
Canonical(d, raw) ==
    /\ DOMAIN d \cap LegacyKeys = {}
    /\ ("ask" \in DOMAIN raw \/ "asks" \in DOMAIN raw) => "asks" \in DOMAIN d
    /\ ("bid" \in DOMAIN raw \/ "bids" \in DOMAIN raw) => "bids" \in DOMAIN d

WellFormedLevel(level) == {"price", "quantity"} \subseteq DOMAIN level

\* the body cannot be parsed into level lists: it is not an object, or one of
\* its lists has an entry without price or quantity
Malformed(b) ==
    \/ b.t # "dict"
    \/ \E k \in DOMAIN b.d :
          \E i \in 1..Len(OrEmpty(b.d[k])) : ~WellFormedLevel(OrEmpty(b.d[k])[i])

\* C15: a response that cannot be parsed into level lists whose entries have
\* price and quantity is never returned to the caller as an order book: the
\* fetch fails instead.
C15_MalformedNeverReturned ==
    (fop \in {"get_book", "get_order_book"} /\ ~GetFails(resp.outcome) /\ Malformed(resp.body))
        => fpc # "returned"

\* --------------------------------------------------------------- place_order
\* Python values
PyStr(s) == [t |-> "str", v |-> s]
PyInt(i) == [t |-> "int", i |-> i]
PyFloat(n) == [t |-> "float", n |-> n]

\* truth value of a Python value (`if client_order_id:`)
Truthy(x) ==
    CASE x.t = "None" -> FALSE
      [] x.t = "str" -> x.v # ""
      [] x.t = "int" -> x.i # 0
      [] x.t = "float" -> x.n # 0

\* decimal digits of the fraction r / ONE, 0 < r < ONE
RECURSIVE FracDigits(_)
FracDigits(r) ==
    IF r = 0 THEN ""
    ELSE ToString((r * 10) \div ONE) \o FracDigits((r * 10) % ONE)

\* repr of a non-negative float
FloatRepr(n) ==
    ToString(n \div ONE) \o "." \o (IF n % ONE = 0 THEN "0" ELSE FracDigits(n % ONE))

\* str(x)
Str(x) ==
    CASE x.t = "None" -> "None"
      [] x.t = "str" -> x.v
      [] x.t = "int" -> ToString(x.i)
      [] x.t = "float" -> FloatRepr(x.n)

\* side.upper()
Upper(s) ==
    CASE s = "buy" -> "BUY"
      [] s = "Sell" -> "SELL"
      [] OTHER -> s

\* self.currency_id, self.quote_id
CurrencyId == "cbfd4c19-259c-420b-9bb2-498493265648"
QuoteId == "0c3a106d-bde3-4c13-a26e-3fd2394529e5"

\* credentials of the client: each given, or absent from arguments and environment
Credentials ==
    [api_key : {PyNone, PyStr("key")}, api_secret : {PyNone, PyStr("secret")}]

\* arguments of place_order
OrderArgs ==
    [side : {PyStr("buy"), PyStr("SELL"), PyNone},
     quantity : {PyInt(5), PyFloat(Lit(3, 2))},
     price : {PyNone, PyInt(0), PyFloat(Lit(1, 4))},
     condition : {"GTC", "FOK"},
     client_order_id : {PyNone, PyStr(""), PyStr("tdg-1")}]

\* int(time.time())
Timestamps == {1762196400, 1762196401}

\* answers to the order request
OrderOutcomes ==
    Outcomes \cup {[t |-> "http", status |-> 201, json |-> TRUE],
                   [t |-> "http", status |-> 400, json |-> TRUE],
                   [t |-> "http", status |-> 401, json |-> TRUE],
                   [t |-> "http", status |-> 403, json |-> FALSE]}

InitOrder ==
    /\ CalcIdle
    /\ FetchIdle
    /\ ProgIdle
    /\ net = <<>>
    /\ cred \in Credentials
    /\ oargs \in OrderArgs
    /\ opc = "start"
    /\ payload = <<>>
    /\ body = ""
    /\ headers = PyNone
    /\ oret = PyNone

\* 'LIMIT' if price is not None else 'MARKET'
OrderTypeByTruth(price) == IF Truthy(price) THEN "LIMIT" ELSE "MARKET"
OrderType(price) == IF price # PyNone THEN "LIMIT" ELSE "MARKET"

\* the payload dict as its items in insertion order
BasePayload(a, ts) ==
    << <<"baseCurrency", PyStr(CurrencyId)>>,
       <<"quoteCurrency", PyStr(QuoteId)>>,
       <<"side", PyStr(Upper(a.side.v))>>,
       <<"condition", PyStr(a.condition)>>,
       <<"type", PyStr(OrderType(a.price))>>,
       <<"quantity", PyStr(Str(a.quantity))>>,
       <<"timestamp", PyInt(ts)>> >>

PricePart(a) ==
    IF OrderType(a.price) = "LIMIT" THEN << <<"price", PyStr(Str(a.price))>> >> ELSE <<>>

ClientIdPart(a) ==
    IF Truthy(a.client_order_id) THEN << <<"clientOrderId", a.client_order_id>> >> ELSE <<>>

Payload(a, ts) == BasePayload(a, ts) \o PricePart(a) \o ClientIdPart(a)

\* JSON text of a string or an int (the strings here need no escaping)
JsonValue(x) == IF x.t = "str" THEN "\"" \o x.v \o "\"" ELSE ToString(x.i)

\* json.dumps(items, separators=(itemSep, keySep))
RECURSIVE DumpItems(_, _, _, _)
DumpItems(items, n, itemSep, keySep) ==
    IF n = 0 THEN ""
    ELSE (IF n = 1 THEN "" ELSE DumpItems(items, n - 1, itemSep, keySep) \o itemSep)
            \o "\"" \o items[n][1] \o "\"" \o keySep \o JsonValue(items[n][2])
Dumps(items, itemSep, keySep) == "{" \o DumpItems(items, Len(items), itemSep, keySep) \o "}"

\* s.encode('utf-8'), for ASCII text
Utf8(s) == [t |-> "bytes", v |-> s]

\* hmac.new(key, msg, hashlib.sha512).hexdigest()
HmacSha512Hex(key, msg) == [t |-> "hexdigest", alg |-> "sha512", key |-> key, msg |-> msg]

\* payload built and serialized; side.upper() raises on a side that is no string
OrderBuild ==
    /\ opc = "start"
    /\ oargs.side # PyNone
    /\ \E ts \in Timestamps :
          /\ payload' = Payload(oargs, ts)
          /\ body' = Dumps(Payload(oargs, ts), ",", ":")
    /\ opc' = "built"
    /\ UNCHANGED <<calcVars, net, fetchVars, cred, oargs, headers, oret, progVars>>

OrderBuildRaises ==
    /\ opc = "start"
    /\ oargs.side = PyNone
    /\ oret' = [t |-> "raised", exc |-> "AttributeError"]
    /\ opc' = "raised"
    /\ UNCHANGED <<calcVars, net, fetchVars, cred, oargs, payload, body, headers, progVars>>

\* the three headers, with the signature of the body
SignedHeaders ==
    [h \in {"X-LA-APIKEY", "X-LA-SIGNATURE", "Content-Type"} |->
        CASE h = "X-LA-APIKEY" -> cred.api_key
          [] h = "X-LA-SIGNATURE" -> HmacSha512Hex(Utf8(cred.api_secret.v), Utf8(body))
          [] h = "Content-Type" -> PyStr("application/json")]

OrderSign ==
    /\ opc = "built"
    /\ cred.api_secret # PyNone
    /\ headers' = SignedHeaders
    /\ opc' = "signed"
    /\ UNCHANGED <<calcVars, net, fetchVars, cred, oargs, payload, body, oret, progVars>>

\* headers as requests sends them: a header whose value is None is left out
Sent(h) == [k \in {x \in DOMAIN h : h[x] # PyNone} |-> h[k]]

\* session.post(url, headers=headers, data=body) answered with o
OrderRequestJsonParam(o) ==
    [method |-> "POST", url |-> "/v2/order", headers |-> Sent(headers),
     data |-> Utf8(Dumps(payload, ", ", ": ")), outcome |-> o]
OrderRequest(o) ==
    [method |-> "POST", url |-> "/v2/order", headers |-> Sent(headers),
     data |-> Utf8(body), outcome |-> o]

\* self.api_secret is None: None.encode raises
OrderSignSwallow ==
    /\ opc = "built"
    /\ cred.api_secret = PyNone
    /\ headers' = [h \in {"X-LA-APIKEY", "Content-Type"} |->
                      IF h = "X-LA-APIKEY" THEN cred.api_key ELSE PyStr("application/json")]
    /\ opc' = "signed"
    /\ UNCHANGED <<calcVars, net, fetchVars, cred, oargs, payload, body, oret, progVars>>

OrderSignRaises ==
    /\ opc = "built"
    /\ cred.api_secret = PyNone
    /\ oret' = [t |-> "raised", exc |-> "AttributeError"]
    /\ opc' = "raised"
    /\ UNCHANGED <<calcVars, net, fetchVars, cred, oargs, payload, body, headers, progVars>>

\* the exception of a failed request: session.post raising, or raise_for_status
PostError(o) ==
    IF o.t = "transport"
    THEN [t |-> "raised", exc |-> "ConnectionError"]
    ELSE [t |-> "raised", exc |-> "HTTPError", response |-> o]

\* resp.json(), or {'result': resp.text} for a body that is not JSON
PostResult(o) ==
    IF o.json
    THEN [t |-> "returned", value |-> [t |-> "json", of |-> o]]
    ELSE [t |-> "returned", value |-> [t |-> "dict", result |-> [t |-> "text", of |-> o]]]

OrderPostOk ==
    /\ opc = "signed"
    /\ \E o \in OrderOutcomes :
          /\ o.t = "http"
          /\ ~RaisesForStatus(o)
          /\ net' = Append(net, OrderRequest(o))
          /\ oret' = PostResult(o)
    /\ opc' = "returned"
    /\ UNCHANGED <<calcVars, fetchVars, cred, oargs, payload, body, headers, progVars>>

OrderPostIgnoresStatus ==
    /\ opc = "signed"
    /\ \E o \in OrderOutcomes :
          /\ o.t = "transport" \/ RaisesForStatus(o)
          /\ net' = Append(net, OrderRequest(o))
          /\ IF o.t = "transport"
             THEN oret' = PostError(o) /\ opc' = "raised"
             ELSE oret' = PostResult(o) /\ opc' = "returned"
    /\ UNCHANGED <<calcVars, fetchVars, cred, oargs, payload, body, headers, progVars>>

OrderPostRaises ==
    /\ opc = "signed"
    /\ \E o \in OrderOutcomes :
          /\ o.t = "transport" \/ RaisesForStatus(o)
          /\ net' = Append(net, OrderRequest(o))
          /\ oret' = PostError(o)
    /\ opc' = "raised"
    /\ UNCHANGED <<calcVars, fetchVars, cred, oargs, payload, body, headers, progVars>>

NextOrder ==
    \/ OrderBuild
    \/ OrderBuildRaises
    \/ OrderSign
    \/ OrderSignRaises
    \/ OrderPostOk
    \/ OrderPostRaises

SpecOrder == InitOrder /\ [][NextOrder]_vars

\* ------------------------------------------------- properties of place_order
HasKey(items, k) == \E i \in 1..Len(items) : items[i][1] = k
ValueOf(items, k) == items[CHOOSE i \in 1..Len(items) : items[i][1] = k][2]

\* C16: order type is derived from price: in every payload built by
\* place_order, type is 'LIMIT' exactly when a price was supplied (any value
\* other than None, including 0) and 'MARKET' otherwise, and the payload has
\* a 'price' field exactly when type is 'LIMIT'.
C16_TypeDerivedFromPrice ==
    payload # <<>> =>
        /\ HasKey(payload, "type")
        /\ ValueOf(payload, "type") =
              IF oargs.price = PyNone THEN PyStr("MARKET") ELSE PyStr("LIMIT")
        /\ HasKey(payload, "price") <=> ValueOf(payload, "type") = PyStr("LIMIT")

\* C16 witness: a payload built for price 0
C16_Witness ==
    /\ payload # <<>>
    /\ oargs.price = PyInt(0)
    /\ ValueOf(payload, "type") = PyStr("LIMIT")
    /\ ValueOf(payload, "price") = PyStr("0")

\* the order requests sent so far
Posts == {i \in 1..Len(net) : net[i].method = "POST"}

\* C17: the signature covers exactly what is transmitted: for every
\* submitted order, the signature header is the hex HMAC-SHA512, keyed by
\* the API secret, of the body that is sent, and the request carries the
\* client's API key as a header.
C17_SignatureCoversBody ==
    \A i \in Posts :
        /\ "X-LA-SIGNATURE" \in DOMAIN net[i].headers
        /\ net[i].headers["X-LA-SIGNATURE"] =
              HmacSha512Hex(Utf8(cred.api_secret.v), net[i].data)
        /\ cred.api_key # PyNone =>
              /\ "X-LA-APIKEY" \in DOMAIN net[i].headers
              /\ net[i].headers["X-LA-APIKEY"] = cred.api_key

\* C17 witness: an order with a price and a client order id was submitted
C17_Witness ==
    /\ Posts # {}
    /\ HasKey(payload, "price")
    /\ HasKey(payload, "clientOrderId")
    /\ cred.api_key # PyNone
    /\ net[1].data = Utf8(body)


\* the call has sent its request and ended
Posted == opc \in {"returned", "raised"} /\ Posts # {}

\* the kind of error an exception stands for, by its type: the exception of
\* raise_for_status is the exchange error, that of the transport the network
\* error
ErrorKind(e) ==
    CASE e.exc = "HTTPError" -> "exchange"
      [] e.exc = "ConnectionError" -> "network"
      [] OTHER -> "other"

PayloadComplete ==
    /\ \A k \in {"baseCurrency", "quoteCurrency", "side", "condition", "type",
                "quantity", "timestamp"} : HasKey(payload, k)
    /\ oargs.price # PyNone => HasKey(payload, "price")
    /\ Truthy(oargs.client_order_id) => HasKey(payload, "clientOrderId")

\* C20: submission is all-or-nothing: a place_order call sends at most one
\* POST, and only after the payload and its signature are both fully built
\* (the request sent has the serialized complete payload as body and the
\* signature header); if building or signing fails (side is no string, the
\* API secret is absent) no request is sent at all.
C20_AllOrNothing ==
    /\ Len(net) <= 1
    /\ \A i \in Posts :
          /\ opc \in {"returned", "raised"}
          /\ PayloadComplete
          /\ net[i].data = Utf8(Dumps(payload, ",", ":"))
          /\ headers # PyNone
          /\ "X-LA-SIGNATURE" \in DOMAIN net[i].headers
    /\ (opc = "raised" /\ oret.exc = "AttributeError") => net = <<>>
    /\ (oargs.side = PyNone \/ cred.api_secret = PyNone) => net = <<>>

\* C20 witness: the payload was built, signing failed for want of a secret,
\* nothing was sent
C20_Witness ==
    /\ opc = "raised"
    /\ oret.exc = "AttributeError"
    /\ cred.api_secret = PyNone
    /\ PayloadComplete
    /\ body # ""
    /\ net = <<>>


\* -------------------------------------------------------------- the programs
\* scheduler cycles run before the loop is interrupted, at most
MaxCycles == 2

Programs == {"market_maker", "sandbox", "script"}

\* --interval: seconds between cycles (any float is accepted)
Intervals == {0 - 1, 0, 5}

\* replies to the sandbox's two book requests
SandboxResponses ==
    {r \in Responses :
        \/ GetFails(r.outcome)
        \/ r.body \in {[t |-> "other"],
                       [t |-> "dict", d |-> [ask |-> JList(AskLevels), bid |-> JList(BidLevels)]],
                       [t |-> "dict", d |-> [asks |-> JList(AskLevels), bids |-> JNull]],
                       [t |-> "dict", d |-> [asks |-> JList(BadLevels)]]}}
SandboxReplies ==
    {[t |-> "other"],
     [t |-> "dict", d |-> [asks |-> JList(AskLevels)]],
     [t |-> "dict", d |-> [ask |-> JList(BidLevels)]],
     [t |-> "dict", d |-> [asks |-> JList(<<[price |-> ONE, quantity |-> 0]>> \o AskLevels)]]}

InitPrograms ==
    /\ prog \in Programs
    /\ ppc = "start"
    /\ cycles = 0
    /\ net = <<>>
    /\ cred \in Credentials
    /\ budget \in Budgets
    /\ reply \in SandboxReplies
    /\ resp \in SandboxResponses
    /\ prog # "sandbox" =>
          /\ budget = 0
          /\ reply = [t |-> "other"]
          /\ resp = [outcome |-> [t |-> "transport"], body |-> [t |-> "other"]]
    /\ prog # "script" => cred = [api_key |-> PyNone, api_secret |-> PyNone]
    /\ interval \in Intervals
    /\ prog # "market_maker" => interval = 0
    /\ cycle_budget = PyNone
    /\ order_book = PyNone
    /\ events = <<>>
    /\ pc = "idle"
    /\ asks = <<>>
    /\ idx = 1
    /\ remaining = 0
    /\ purchases = <<>>
    /\ total_qty = 0
    /\ total_cost = 0
    /\ result = NoResult
    /\ fop = "none"
    /\ fpc = "idle"
    /\ fbook = PyNone
    /\ fret = PyNone
    /\ oargs = PyNone
    /\ opc = "idle"
    /\ payload = <<>>
    /\ body = ""
    /\ headers = PyNone
    /\ oret = PyNone

\* the request of WixClient.get_daily_budget
WixGet(o) == [method |-> "GET", url |-> "wix-data/items", outcome |-> o]

\* run_sandbox.main: the budget arrives from Wix, get_order_book is called
SandboxBudgetOk ==
    /\ prog = "sandbox"
    /\ ppc = "start"
    /\ \E o \in Outcomes : ~GetFails(o) /\ net' = Append(net, WixGet(o))
    /\ fop' = "get_order_book"
    /\ fpc' = "start"
    /\ ppc' = "book"
    /\ UNCHANGED <<calcVars, resp, fbook, fret, orderVars, prog, cycles, schedVars>>

\* get_daily_budget raises: the Wix settings are missing (no request is
\* made), or the request fails
SandboxBudgetRaises ==
    /\ prog = "sandbox"
    /\ ppc = "start"
    /\ \/ net' = net
       \/ \E o \in Outcomes : GetFails(o) /\ net' = Append(net, WixGet(o))
    /\ ppc' = "raised"
    /\ UNCHANGED <<calcVars, fetchVars, orderVars, prog, cycles, schedVars>>

\* book.get(key, [])[:5] works: the book is a dict and the key holds a list
Sliceable(book, k) == book.t = "dict" /\ (k \in DOMAIN book.d => book.d[k].t = "list")

\* the book is printed and calculate_purchase_amount called; a book that is
\* no dict, or has None under a key, raises
SandboxBookReturned ==
    /\ prog = "sandbox"
    /\ ppc = "book"
    /\ fpc = "returned"
    /\ IF Sliceable(fret, "bids") /\ Sliceable(fret, "asks")
       THEN /\ ppc' = "plan"
            /\ pc' = "start"
       ELSE /\ ppc' = "raised"
            /\ pc' = pc
    /\ UNCHANGED <<budget, reply, asks, idx, remaining, purchases, total_qty, total_cost,
                   result, net, fetchVars, orderVars, prog, cycles, schedVars>>

SandboxBookRaised ==
    /\ prog = "sandbox"
    /\ ppc = "book"
    /\ fpc = "raised"
    /\ ppc' = "raised"
    /\ UNCHANGED <<calcVars, net, fetchVars, orderVars, prog, cycles, schedVars>>

\* the plan is printed, or the calculator's exception ends the program
SandboxPlanReturned ==
    /\ prog = "sandbox"
    /\ ppc = "plan"
    /\ pc = "done"
    /\ ppc' = "finished"
    /\ UNCHANGED <<calcVars, net, fetchVars, orderVars, prog, cycles, schedVars>>

SandboxPlanRaised ==
    /\ prog = "sandbox"
    /\ ppc = "plan"
    /\ pc = "raised"
    /\ ppc' = "raised"
    /\ UNCHANGED <<calcVars, net, fetchVars, orderVars, prog, cycles, schedVars>>

\* MarketMaker.start enters run_cycle: at the start, or when the sleep ends
BeginCycle ==
    /\ prog = "market_maker"
    /\ ppc \in {"start", "sleep"}
    /\ cycles < MaxCycles
    /\ events' = Append(events, [e |-> "cycle_start", sent |-> Len(net)])
    /\ cycle_budget' = PyNone
    /\ order_book' = PyNone
    /\ ppc' = "budget"
    /\ UNCHANGED <<calcVars, net, fetchVars, orderVars, prog, cycles, interval>>

\* MarketMaker.get_daily_budget: the budget of Wix, or None after any
\* exception (settings missing: no request is made; request failed; item
\* without the expected fields)
CycleBudgetPropagates ==
    /\ prog = "market_maker"
    /\ ppc = "budget"
    /\ \/ /\ net' = net
          /\ ppc' = "raised"
          /\ cycle_budget' = PyNone
       \/ \E o \in Outcomes :
            /\ net' = Append(net, WixGet(o))
            /\ IF GetFails(o)
               THEN ppc' = "raised" /\ cycle_budget' = PyNone
               ELSE ppc' = "book" /\ cycle_budget' \in {PyFloat(b) : b \in Budgets}
    /\ UNCHANGED <<calcVars, fetchVars, orderVars, prog, cycles, interval, order_book, events>>

CycleBudget ==
    /\ prog = "market_maker"
    /\ ppc = "budget"
    /\ \/ /\ net' = net
          /\ cycle_budget' = PyNone
       \/ \E o \in Outcomes :
            /\ net' = Append(net, WixGet(o))
            /\ IF GetFails(o)
               THEN cycle_budget' = PyNone
               ELSE cycle_budget' \in {PyNone} \cup {PyFloat(b) : b \in Budgets}
    /\ ppc' = "book"
    /\ UNCHANGED <<calcVars, fetchVars, orderVars, prog, cycles, interval, order_book, events>>

\* requests.get is called without a timeout: with no answer it does not return
NoResponse == [t |-> "no_response"]

CycleBudgetHangs ==
    /\ prog = "market_maker"
    /\ ppc = "budget"
    /\ net' = Append(net, WixGet(NoResponse))
    /\ ppc' = "blocked"
    /\ UNCHANGED <<calcVars, fetchVars, orderVars, prog, cycles, schedVars>>

\* the sleep that follows run_cycle: time.sleep raises ValueError for a
\* negative length
SleepRaises == interval < 0
AfterCycle == IF SleepRaises THEN "raised" ELSE "sleep"
SleepEvents == IF SleepRaises THEN <<>> ELSE <<[e |-> "sleep", secs |-> interval]>>

\* MarketMaker.fetch_order_book returns None without a request (LatokenClient
\* has no get_order_book method, the AttributeError is caught); run_cycle
\* does nothing more and returns; start sleeps
CycleFetchNoSleep ==
    /\ prog = "market_maker"
    /\ ppc = "book"
    /\ order_book' = PyNone
    /\ events' = Append(events, [e |-> "cycle_end"])
    /\ cycles' = cycles + 1
    /\ ppc' = "sleep"
    /\ UNCHANGED <<calcVars, net, fetchVars, orderVars, prog, interval, cycle_budget>>

CycleFetchSubmits ==
    /\ prog = "market_maker"
    /\ ppc = "book"
    /\ order_book' = PyNone
    /\ \E o \in OrderOutcomes :
          net' = Append(net, [method |-> "POST", url |-> "/v2/order", headers |-> <<>>,
                              data |-> Utf8(""), outcome |-> o])
    /\ events' = Append(events, [e |-> "cycle_end"]) \o SleepEvents
    /\ cycles' = cycles + 1
    /\ ppc' = AfterCycle
    /\ UNCHANGED <<calcVars, fetchVars, orderVars, prog, interval, cycle_budget>>

CycleFetch ==
    /\ prog = "market_maker"
    /\ ppc = "book"
    /\ order_book' = PyNone
    /\ events' = Append(events, [e |-> "cycle_end"]) \o SleepEvents
    /\ cycles' = cycles + 1
    /\ ppc' = AfterCycle
    /\ UNCHANGED <<calcVars, net, fetchVars, orderVars, prog, interval, cycle_budget>>

\* KeyboardInterrupt, raised wherever the loop is (run_cycle catches only
\* Exception); MarketMaker.start catches it and returns
InterruptInSleepOnly ==
    /\ prog = "market_maker"
    /\ ppc = "sleep"
    /\ events' = Append(events, [e |-> "stopped"])
    /\ ppc' = "stopped"
    /\ UNCHANGED <<calcVars, net, fetchVars, orderVars, prog, cycles, interval, cycle_budget, order_book>>

Interrupt ==
    /\ prog = "market_maker"
    /\ ppc \in {"budget", "blocked", "book", "sleep"}
    /\ events' = Append(events, [e |-> "stopped"])
    /\ ppc' = "stopped"
    /\ UNCHANGED <<calcVars, net, fetchVars, orderVars, prog, cycles, interval, cycle_budget, order_book>>

\* latoken_place_order_simple.py: params and bodyParams
ScriptParams ==
    << <<"baseCurrency", PyStr(CurrencyId)>>,
       <<"quoteCurrency", PyStr(QuoteId)>>,
       <<"side", PyStr("BUY")>>,
       <<"condition", PyStr("GOOD_TILL_CANCELLED")>>,
       <<"type", PyStr("LIMIT")>>,
       <<"price", PyStr("0.001")>>,
       <<"quantity", PyStr("5")>> >>

\* '&'.join(key + '=' + str(value))
RECURSIVE JoinParams(_, _)
JoinParams(items, n) ==
    IF n = 0 THEN ""
    ELSE (IF n = 1 THEN "" ELSE JoinParams(items, n - 1) \o "&")
            \o items[n][1] \o "=" \o Str(items[n][2])

ScriptBuild ==
    /\ prog = "script"
    /\ ppc = "start"
    /\ payload' = ScriptParams
    /\ body' = JoinParams(ScriptParams, Len(ScriptParams))
    /\ ppc' = "sign"
    /\ UNCHANGED <<calcVars, net, fetchVars, cred, oargs, opc, headers, oret, prog, cycles, schedVars>>

\* hmac.new(apiSecret, ...) with apiSecret a str or None: TypeError, and the
\* script ends before its requests.post
ScriptSignsAndPosts ==
    /\ prog = "script"
    /\ ppc = "sign"
    /\ \E o \in OrderOutcomes :
          net' = Append(net, [method |-> "POST", url |-> "/v2/auth/order/place",
                              headers |-> Sent([h \in {"X-LA-APIKEY"} |-> cred.api_key]),
                              data |-> Utf8(Dumps(payload, ", ", ": ")), outcome |-> o])
    /\ ppc' = "finished"
    /\ UNCHANGED <<calcVars, fetchVars, orderVars, prog, cycles, schedVars>>

ScriptSignRaises ==
    /\ prog = "script"
    /\ ppc = "sign"
    /\ oret' = [t |-> "raised", exc |-> "TypeError"]
    /\ ppc' = "raised"
    /\ UNCHANGED <<calcVars, net, fetchVars, cred, oargs, opc, payload, body, headers, prog, cycles, schedVars>>

NextPrograms ==
    \/ SandboxBudgetOk
    \/ SandboxBudgetRaises
    \/ FetchGetBookOk
    \/ FetchGetBookRaises
    \/ FetchNormalize
    \/ SandboxBookReturned
    \/ SandboxBookRaised
    \/ Begin
    \/ GetBookOk
    \/ GetBookRaises
    \/ SkipLevel
    \/ TakeLevel
    \/ Return
    \/ SandboxPlanReturned
    \/ SandboxPlanRaised
    \/ BeginCycle
    \/ CycleBudget
    \/ CycleBudgetHangs
    \/ CycleFetch
    \/ Interrupt
    \/ ScriptBuild
    \/ ScriptSignRaises

SpecPrograms == InitPrograms /\ [][NextPrograms]_vars

\* ------------------------------------------------ properties of the programs
\* a purchase plan has been computed
PlanComputed == pc = "done" /\ result # NoResult

\* C19: an order is submitted only by the scheduler after a plan has been
\* computed: no order POST is issued by the fetch operations or by
\* calculate_purchase_amount (their requests are GETs), and no order POST is
\* issued anywhere before a purchase plan has been computed.
C19_PostOnlyAfterPlan ==
    /\ \A i \in Posts : prog = "market_maker" /\ PlanComputed
    /\ (prog = "sandbox" \/ ~PlanComputed) => \A i \in 1..Len(net) : net[i].method = "GET"

\* C19 witness: the sandbox fetched the book, computed a plan with
\* allocations and ended, having sent its three GETs
C19_Witness ==
    /\ prog = "sandbox"
    /\ ppc = "finished"
    /\ PlanComputed
    /\ result.purchases # <<>>
    /\ Len(net) = 3

\* -------------------------------------------------------------- the scheduler
\* what the exchange would answer an order-book request of the scheduler
SchedulerResponses ==
    {r \in SandboxResponses :
        r.outcome.t = "transport" \/ (~GetFails(r.outcome) /\ r.body.t = "dict")}

InitScheduler ==
    /\ CalcIdle
    /\ OrderIdle
    /\ net = <<>>
    /\ fop = "none"
    /\ fpc = "idle"
    /\ resp \in SchedulerResponses
    /\ fbook = PyNone
    /\ fret = PyNone
    /\ prog = "market_maker"
    /\ ppc = "start"
    /\ cycles = 0
    /\ interval \in Intervals
    /\ cycle_budget = PyNone
    /\ order_book = PyNone
    /\ events = <<>>

\* the steps the program takes by itself
SchedulerStep ==
    \/ BeginCycle
    \/ CycleBudget
    \/ CycleBudgetHangs
    \/ CycleFetch

NextScheduler ==
    \/ SchedulerStep
    \/ Interrupt

SpecScheduler == InitScheduler /\ [][NextScheduler]_vars

\* the running program takes its next step whenever it has one; the
\* interrupt is up to the user
SpecSchedulerLive == SpecScheduler /\ WF_vars(SchedulerStep)

\* ------------------------------------------------ properties of the scheduler
EventsOf(kind) == {i \in 1..Len(events) : events[i].e = kind}

\* a cycle has started and not ended
Running == Cardinality(EventsOf("cycle_start")) > Cardinality(EventsOf("cycle_end"))

\* C21: per-cycle failure isolation: whatever the budget lookup and the
\* order-book fetch do, run_cycle returns normally, the scheduler sleeps and
\* starts the next cycle; no exception raised inside a cycle ends
\* MarketMaker.start (interval not negative; a negative one makes the sleep
\* itself raise).
C21_FailureIsolation ==
    interval >= 0 =>
        /\ ppc # "raised"
        /\ \A i \in EventsOf("cycle_end") :
              i < Len(events) /\ events[i + 1] = [e |-> "sleep", secs |-> interval]
        /\ (ppc = "sleep" /\ cycles < MaxCycles) => ENABLED BeginCycle

\* C21 witness: a cycle whose budget request failed was followed by a sleep
\* and a second, completed cycle
C21_Witness ==
    /\ cycles = 2
    /\ ppc = "sleep"
    /\ Len(net) >= 1
    /\ net[1].outcome.t = "transport"
    /\ Cardinality(EventsOf("cycle_end")) = 2

\* C22: cancellation ends the loop only between cycles: the loop never stops
\* while a cycle is in progress.
C22_StopsOnlyBetweenCycles ==
    ppc = "stopped" => ~Running

\* C23: cycles never overlap and alternate with sleeps: at most one cycle is
\* running, a cycle starts only after the previous one has returned, and
\* exactly one sleep of the configured interval separates two consecutive
\* cycles.
C23_CyclesAlternateWithSleeps ==
    /\ Cardinality(EventsOf("cycle_start")) - Cardinality(EventsOf("cycle_end")) \in {0, 1}
    /\ \A i \in EventsOf("cycle_start") :
          i > 1 => /\ i > 2
                   /\ events[i - 1] = [e |-> "sleep", secs |-> interval]
                   /\ events[i - 2].e = "cycle_end"
    /\ \A i \in EventsOf("cycle_end") : events[i - 1].e = "cycle_start"
    /\ \A i \in EventsOf("sleep") : events[i - 1].e = "cycle_end"

\* C23 witness: two cycles with a five-second sleep between them
C23_Witness ==
    /\ interval = 5
    /\ Len(events) >= 5
    /\ events[3] = [e |-> "sleep", secs |-> 5]
    /\ events[4].e = "cycle_start"
    /\ events[5].e = "cycle_end"

\* number of requests sent when the latest cycle started
SentAtCycleStart ==
    LET starts == EventsOf("cycle_start")
    IN  events[CHOOSE i \in starts : \A j \in starts : j <= i].sent

\* C24: submission is gated: in a cycle in which the budget is unavailable,
\* or the order-book fetch fails, or the computed plan has total_quantity 0
\* (or there is no plan), no order is submitted in that cycle.
C24_SubmissionGated ==
    (/\ EventsOf("cycle_start") # {}
     /\ \/ cycle_budget = PyNone
        \/ order_book = PyNone
        \/ ~PlanComputed
        \/ result.total_quantity = 0)
        => \A i \in Posts : i <= SentAtCycleStart

\* C24 witness: a cycle without a budget and a cycle with one have both ended
\* without a submission
C24_Witness ==
    /\ cycles = 2
    /\ Len(net) = 2
    /\ GetFails(net[1].outcome)
    /\ cycle_budget # PyNone
    /\ Posts = {}

\* the latest cycle has ended
CycleEnded == EventsOf("cycle_end") # {} /\ ~Running

InCycle == prog = "market_maker" /\ ppc \in {"budget", "blocked", "book"}

\* C26: every cycle that starts eventually completes: a request that the
\* remote side never answers ends in a failure, so the scheduler always
\* returns to Idle.
C26_CycleCompletes ==
    InCycle ~> ~InCycle

\* ------------------------------------------------------------ partial fills
AllPricesPositive(ls) == \A i \in 1..Len(ls) : Price(ls[i]) > 0

\* allocations that took less than their level offered; with positive prices
\* the i-th allocation is of the i-th level that has a positive quantity
PartialFills(ps, ls) ==
    {i \in 1..Len(ps) : i <= Len(DepthOf(ls)) /\ ps[i].quantity < DepthOf(ls)[i][2]}

\* C28: for asks with positive prices, a plan contains at most one partial
\* fill, that allocation is the last one in purchases, and after it the
\* remaining budget is 0, so no later level is consumed.
C28_OnePartialFillLast ==
    (Done /\ AllPricesPositive(asks)) =>
        /\ Cardinality(PartialFills(result.purchases, asks)) <= 1
        /\ \A i \in PartialFills(result.purchases, asks) :
              /\ i = Len(result.purchases)
              /\ remaining = 0

\* ------------------------------------------------ the book the callers get
\* some request sent so far failed
SomeRequestFailed == \E i \in 1..Len(net) : GetFails(net[i].outcome)

\* C27: when the exchange answers the order-book request successfully,
\* MarketMaker.fetch_order_book returns that order book; it returns None only
\* when the request to the exchange actually failed.
C27_NoneOnlyAfterFailedRequest ==
    (fop = "fetch_order_book" /\ fpc = "returned") =>
        /\ (~GetFails(resp.outcome) /\ resp.body.t = "dict") => fret = NormalizeBook(resp.body)
        /\ fret = PyNone => SomeRequestFailed

\* the level list a book exposes as 'asks'
ExposedAsks(book) ==
    IF book.t = "dict" /\ "asks" \in DOMAIN book.d THEN OrEmpty(book.d.asks) ELSE <<>>

\* C29: the two key-normalization paths agree: for every response shape the
\* level list that calculate_purchase_amount walks is the list that
\* get_order_book exposes as 'asks' for that response (no list for a missing
\* key or a null).
C29_NormalizationPathsAgree ==
    (fop = "get_order_book" /\ fpc = "returned") =>
        NormalizeAsks(resp.body) = ExposedAsks(fret)

\* C30: in run_sandbox.main the plan that is printed is computed from the
\* order-book snapshot whose top bids and asks were printed before it: the
\* asks walked for the plan are the asks of the book that was shown.
C30_PlanFromPrintedSnapshot ==
    (prog = "sandbox" /\ ppc = "finished") => asks = ExposedAsks(fret)

====
